---- MODULE Spec2Model ----
(***************************************************************************)
(* PageSpeed Outreach Demo (src/app.py): a Streamlit script that reads a   *)
(* table of leads, maps its columns to canonical fields, scores every      *)
(* website through the PageSpeed API, decides on an outreach e-mail and    *)
(* exports a full report and an outreach-import file.                      *)
(*                                                                         *)
(* Text that the program inspects character by character (headers, cells,  *)
(* the API key, exception messages) is a sequence of one-character         *)
(* strings.  Fixed literals that are only compared as a whole (subjects,   *)
(* notes, decisions) are TLA+ strings.  An optional value (Python None) is *)
(* the empty tuple, a present value v is the one-element tuple <<v>>.      *)
(***************************************************************************)
EXTENDS Integers, Sequences, FiniteSets, TLC

(***************************************************************************)
(* Bounds of the model.                                                    *)
(***************************************************************************)
\* rows of an uploaded file in the batch specification
MaxRows == 2
\* freely chosen rows of a table in the column-mapper specification
MaxFree == 4
\* largest performance score handed to decision_and_email
MaxPerf == 101

(***************************************************************************)
(* Program constants.                                                      *)
(***************************************************************************)
\* df.head(30)
SAMPLE == 30
\* if best_score >= 3 (website)
WEBSITE_MIN == 3
\* if best_score >= 3 (email)
EMAIL_MIN == 3
\* sum(...) >= 2 (linkedin)
LINKEDIN_MIN == 2
\* str(e)[:300]
ERR_MAX == 300
\* if perf >= 91
SKIP_FROM == 91
\* if perf <= 50
LOW_MAX == 50
\* elif 51 <= perf <= 75
MID_MIN == 51
MID_MAX == 75
\* st.number_input("Max rows to process", min_value=1, ..., value=200)
MAX_ROWS_MIN == 1
MAX_ROWS_DEFAULT == 200

None == << >>
Some(v) == <<v>>

Min(a, b) == IF a <= b THEN a ELSE b

(***************************************************************************)
(* Python string operations on character sequences.                        *)
(***************************************************************************)
Whitespace == {" ", "\t", "\n", "\r"}

UPPER == <<"A","B","C","D","E","F","G","H","I","J","K","L","M",
           "N","O","P","Q","R","S","T","U","V","W","X","Y","Z">>
LOWER == <<"a","b","c","d","e","f","g","h","i","j","k","l","m",
           "n","o","p","q","r","s","t","u","v","w","x","y","z">>

LowerMap ==
    [c \in {UPPER[i] : i \in 1..Len(UPPER)} |->
        LOWER[CHOOSE i \in 1..Len(UPPER) : UPPER[i] = c]]

LowerChar(c) == IF c \in DOMAIN LowerMap THEN LowerMap[c] ELSE c

\* str.lower()
Lower(s) == [i \in 1..Len(s) |-> LowerChar(s[i])]

RECURSIVE LStrip(_)
LStrip(s) ==
    IF s # << >> /\ Head(s) \in Whitespace THEN LStrip(Tail(s)) ELSE s

RECURSIVE RStrip(_)
RStrip(s) ==
    IF s # << >> /\ s[Len(s)] \in Whitespace
    THEN RStrip(SubSeq(s, 1, Len(s) - 1))
    ELSE s

\* str.strip()
Strip(s) == RStrip(LStrip(s))

\* str.startswith(p)
StartsWith(s, p) == Len(s) >= Len(p) /\ SubSeq(s, 1, Len(p)) = p

\* p in s
Contains(s, p) ==
    \E i \in 1..(Len(s) - Len(p) + 1) : SubSeq(s, i, i + Len(p) - 1) = p

\* re.sub(r"\s+", " ", s): every maximal run of whitespace becomes one space
RECURSIVE CollapseWs(_)
CollapseWs(s) ==
    IF s = << >> THEN << >>
    ELSE IF Head(s) \in Whitespace
         THEN <<" ">> \o CollapseWs(LStrip(s))
         ELSE <<Head(s)>> \o CollapseWs(Tail(s))

\* s[:n]
Prefix(s, n) == SubSeq(s, 1, Min(Len(s), n))

norm(s) == CollapseWs(Lower(Strip(s)))

looks_like_url(v) ==
    LET w == Lower(Strip(v))
    IN  \/ StartsWith(w, <<"h","t","t","p",":","/","/">>)
        \/ StartsWith(w, <<"h","t","t","p","s",":","/","/">>)
        \/ Contains(w, <<"w","w","w",".">>)

looks_like_email(v) ==
    LET w == Strip(v)
    IN  /\ Contains(w, <<"@">>)
        /\ Contains(w, <<".">>)
        /\ ~Contains(w, <<" ">>)

looks_like_linkedin(v) ==
    Contains(Lower(Strip(v)), <<"l","i","n","k","e","d","i","n",".","c","o","m">>)

(***************************************************************************)
(* Canonical fields and their header synonyms.                             *)
(***************************************************************************)
CANON == <<"website", "email", "name", "company", "linkedin">>

CanonKeys == {CANON[i] : i \in 1..Len(CANON)}

SYN_website ==
    { <<"w","e","b","s","i","t","e">>
    , <<"u","r","l">>
    , <<"s","i","t","e">>
    , <<"d","o","m","a","i","n">>
    , <<"c","o","m","p","a","n","y"," ","u","r","l">>
    , <<"c","o","m","p","a","n","y"," ","w","e","b","s","i","t","e">>
    , <<"w","e","b">>
    , <<"h","o","m","e","p","a","g","e">>
    , <<"h","o","m","e"," ","p","a","g","e">>
    , <<"c","o","m","p","a","n","y","_","u","r","l">>
    , <<"c","o","m","p","a","n","y"," ","w","e","b","s","i","t","e"," ","u","r","l">>
    , <<"c","o","m","p","a","n","y","u","r","l">>
    }
SYN_email ==
    { <<"e","m","a","i","l">>
    , <<"e","-","m","a","i","l">>
    , <<"m","a","i","l">>
    , <<"w","o","r","k"," ","e","m","a","i","l">>
    , <<"e","m","a","i","l"," ","a","d","d","r","e","s","s">>
    , <<"e","m","a","i","l","a","d","d","r","e","s","s">>
    }
SYN_name ==
    { <<"n","a","m","e">>
    , <<"f","i","r","s","t"," ","n","a","m","e">>
    , <<"f","i","r","s","t","n","a","m","e">>
    , <<"f","u","l","l"," ","n","a","m","e">>
    , <<"c","o","n","t","a","c","t"," ","n","a","m","e">>
    , <<"c","o","n","t","a","c","t">>
    , <<"p","e","r","s","o","n"," ","n","a","m","e">>
    }
SYN_company ==
    { <<"c","o","m","p","a","n","y">>
    , <<"c","o","m","p","a","n","y"," ","n","a","m","e">>
    , <<"o","r","g","a","n","i","z","a","t","i","o","n">>
    , <<"o","r","g","a","n","i","s","a","t","i","o","n">>
    , <<"b","u","s","i","n","e","s","s">>
    , <<"o","r","g">>
    , <<"a","c","c","o","u","n","t">>
    }
SYN_linkedin ==
    { <<"l","i","n","k","e","d","i","n">>
    , <<"l","i","n","k","e","d","i","n"," ","u","r","l">>
    , <<"l","i","n","k","e","d","i","n"," ","p","r","o","f","i","l","e">>
    , <<"p","r","o","f","i","l","e">>
    , <<"u","s","e","r"," ","s","o","c","i","a","l">>
    , <<"s","o","c","i","a","l">>
    }

SYNONYMS ==
    [ website  |-> SYN_website
    , email    |-> SYN_email
    , name     |-> SYN_name
    , company  |-> SYN_company
    , linkedin |-> SYN_linkedin ]

(***************************************************************************)
(* A table (pandas DataFrame) is [columns |-> <<header, ...>>,             *)
(* rows |-> <<row, ...>>], every row a tuple of cells aligned with the     *)
(* columns.  pandas makes the headers of a table distinct, so a column is  *)
(* identified by its position 1..Len(columns); 0 is "no column" (None in   *)
(* a mapping, "(none)" in a select box).  Cells are the text astype(str)   *)
(* yields.                                                                 *)
(***************************************************************************)
NoCol == 0

Cols(df) == 1..Len(df.columns)

\* df.head(n)
head(df, n) == [df EXCEPT !.rows = SubSeq(df.rows, 1, Min(Len(df.rows), n))]

\* step 1 of auto_map_columns: the first column whose normalised header is a
\* synonym of canon_key
HeaderMatch(df, canon_key) ==
    LET hits == {c \in Cols(df) : norm(df.columns[c]) \in SYNONYMS[canon_key]}
    IN  IF hits = {} THEN NoCol
        ELSE CHOOSE c \in hits : \A d \in hits : c <= d

\* sum(1 for v in vals if looks_like_url(v)) over column c of the sample
UrlScore(sample, c) ==
    Cardinality({i \in 1..Len(sample.rows) : looks_like_url(sample.rows[i][c])})

EmailScore(sample, c) ==
    Cardinality({i \in 1..Len(sample.rows) : looks_like_email(sample.rows[i][c])})

LinkedinScore(sample, c) ==
    Cardinality({i \in 1..Len(sample.rows) : looks_like_linkedin(sample.rows[i][c])})

\* faulty variant: "score >= best_score" lets a later column win a tie
RECURSIVE BestLoopGe(_, _, _, _)
BestLoopGe(scores, c, best_col, best_score) ==
    IF c > Len(scores) THEN [col |-> best_col, score |-> best_score]
    ELSE IF scores[c] >= best_score
         THEN BestLoopGe(scores, c + 1, c, scores[c])
         ELSE BestLoopGe(scores, c + 1, best_col, best_score)

\* for c in cols: if score > best_score: best_score = score; best_col = c
RECURSIVE BestLoop(_, _, _, _)
BestLoop(scores, c, best_col, best_score) ==
    IF c > Len(scores) THEN [col |-> best_col, score |-> best_score]
    ELSE IF scores[c] > best_score
         THEN BestLoop(scores, c + 1, c, scores[c])
         ELSE BestLoop(scores, c + 1, best_col, best_score)

\* the website fallback: every column of the table is scored
SniffWebsite(df, sample) ==
    LET scores == [c \in Cols(df) |-> UrlScore(sample, c)]
        best   == BestLoop(scores, 1, NoCol, 0)
    IN  IF best.score >= WEBSITE_MIN THEN best.col ELSE NoCol

\* the email fallback
SniffEmail(df, sample) ==
    LET scores == [c \in Cols(df) |-> EmailScore(sample, c)]
        best   == BestLoop(scores, 1, NoCol, 0)
    IN  IF best.score >= EMAIL_MIN THEN best.col ELSE NoCol

\* the linkedin fallback: the first column with at least two matches
SniffLinkedin(df, sample) ==
    LET hits == {c \in Cols(df) : LinkedinScore(sample, c) >= LINKEDIN_MIN}
    IN  IF hits = {} THEN NoCol
        ELSE CHOOSE c \in hits : \A d \in hits : c <= d

auto_map_columns(df) ==
    LET byHeader == [k \in CanonKeys |-> HeaderMatch(df, k)]
        sample   == head(df, SAMPLE)
    IN  [ website  |-> IF byHeader["website"] = NoCol
                       THEN SniffWebsite(df, sample)
                       ELSE byHeader["website"]
        , email    |-> IF byHeader["email"] = NoCol
                       THEN SniffEmail(df, sample)
                       ELSE byHeader["email"]
        , name     |-> byHeader["name"]
        , company  |-> byHeader["company"]
        , linkedin |-> IF byHeader["linkedin"] = NoCol
                       THEN SniffLinkedin(df, sample)
                       ELSE byHeader["linkedin"] ]

(***************************************************************************)
(* get_pagespeed.  A reply of the scoring service is                       *)
(* [raises |-> TRUE, message |-> text] when the request, the status check  *)
(* or the JSON decoding raises, and [raises |-> FALSE, cats |-> c]         *)
(* otherwise, c giving for each category its raw score or None.  A raw     *)
(* score v is held in thousandths (v = raw / 1000), so that v * 100 is     *)
(* raw / 10 and round() is Python's round-half-to-even.                    *)
(***************************************************************************)
\* int(round(v * 100))
score(raw) ==
    LET q == raw \div 10
        r == raw % 10
    IN  IF r < 5 THEN q
        ELSE IF r > 5 THEN q + 1
        ELSE IF q % 2 = 0 THEN q ELSE q + 1

\* None if v is None else int(round(v * 100))
cat_score(v) == IF v = None THEN None ELSE Some(score(v[1]))

get_pagespeed(reply) ==
    [ mobile_performance |-> cat_score(reply.cats.performance)
    , accessibility      |-> cat_score(reply.cats.accessibility)
    , best_practices     |-> cat_score(reply.cats.best_practices)
    , seo                |-> cat_score(reply.cats.seo) ]

(***************************************************************************)
(* decision_and_email.  A body is [greet |-> characters, text |-> string]: *)
(* the greeting line followed by the fixed text of the template (written   *)
(* here in ASCII: the source has an en dash in "2-3 days" and "$400-600"   *)
(* and a typographic apostrophe in "you're").  The empty body ""  is       *)
(* EmptyBody.                                                              *)
(***************************************************************************)
EmptyBody == [greet |-> << >>, text |-> ""]

SUBJECT_LOW == "Quick note about your website performance"
SUBJECT_MID == "Website performance improvement opportunity"
SUBJECT_HIGH == "Reaching 90+ PageSpeed score for your website"

TEXT_LOW ==
    "\n\nI reviewed your website using Google PageSpeed Insights and noticed that the mobile performance score is extremely low.\nThis negatively affects search visibility, organic traffic, and significantly increases advertising costs if you are running paid campaigns.\n\nWe can fix this within 2-3 days, with an estimated cost of $400-600.\nIf this is interesting for you, just reply to this email.\n\nBest regards,\nRoman Sidorin\nDITS.AGENCY"

TEXT_MID ==
    "\n\nI reviewed your website via Google PageSpeed Insights and noticed that the mobile performance is quite weak.\nThis can negatively impact search visibility, organic traffic, and increase advertising costs when running paid campaigns.\n\nWe can improve this within 2-3 days, with a budget of $400-600.\nIf you're interested, simply reply to this email.\n\nBest regards,\nRoman Sidorin\nDITS.AGENCY"

TEXT_HIGH ==
    "\n\nYour website already shows a fairly good mobile performance score.\nHowever, if your goal is to reach 90+, we can help you achieve this.\n\nIn most cases, this takes 2-3 days and costs $400-800.\nIf this sounds interesting, just reply to this email.\n\nBest regards,\nRoman Sidorin\nDITS.AGENCY"

\* greet_name = (name or "").strip(); "Hi there," or f"Hi {greet_name},"
greeting(name) ==
    LET greet_name == Strip(IF name = None THEN << >> ELSE name[1])
    IN  IF greet_name = << >>
        THEN <<"H","i"," ","t","h","e","r","e",",">>
        ELSE <<"H","i"," ">> \o greet_name \o <<",">>

\* faulty variant: "perf < 50" sends a score of exactly 50 to the middle bucket
template_lt(perf) ==
    IF perf < LOW_MAX
    THEN [subject |-> SUBJECT_LOW, text |-> TEXT_LOW, bucket |-> "0-50"]
    ELSE IF MID_MIN <= perf + 1 /\ perf <= MID_MAX
    THEN [subject |-> SUBJECT_MID, text |-> TEXT_MID, bucket |-> "51-75"]
    ELSE [subject |-> SUBJECT_HIGH, text |-> TEXT_HIGH, bucket |-> "76-90"]

\* if perf <= 50 ... elif 51 <= perf <= 75 ... else
template(perf) ==
    IF perf <= LOW_MAX
    THEN [subject |-> SUBJECT_LOW, text |-> TEXT_LOW, bucket |-> "0-50"]
    ELSE IF MID_MIN <= perf /\ perf <= MID_MAX
    THEN [subject |-> SUBJECT_MID, text |-> TEXT_MID, bucket |-> "51-75"]
    ELSE [subject |-> SUBJECT_HIGH, text |-> TEXT_HIGH, bucket |-> "76-90"]

\* faulty variant: the score is left out of the note
audit_note_noscore(perf, bucket) ==
    "Mobile performance. Offer depends on bucket " \o bucket \o "."

\* f"Mobile performance {perf}. Offer depends on bucket {bucket}."
audit_note(perf, bucket) ==
    "Mobile performance " \o ToString(perf)
        \o ". Offer depends on bucket " \o bucket \o "."

decision_and_email(perf, name) ==
    IF perf = None
    THEN [ decision |-> "skip", email_subject |-> "", email_body |-> EmptyBody
         , audit_note |-> "Score not available" ]
    ELSE IF perf[1] >= SKIP_FROM
    THEN [ decision |-> "skip", email_subject |-> "", email_body |-> EmptyBody
         , audit_note |-> "Performance is 90+ (no outreach)" ]
    ELSE LET t == template(perf[1])
         IN  [ decision      |-> "send"
             , email_subject |-> t.subject
             , email_body    |-> [greet |-> greeting(name), text |-> t.text]
             , audit_note    |-> audit_note(perf[1], t.bucket) ]

(***************************************************************************)
(* The state of the script.                                                *)
(***************************************************************************)
VARIABLES
    pc,            \* position of the script
    env_key,       \* os.getenv("PAGESPEED_API_KEY", "")
    API_KEY,       \* the stripped key
    df_raw,        \* the uploaded table, cut to max_rows
    mapping_auto,  \* auto_map_columns(df_raw)
    df,            \* the canonical table: one lead per row
    idx,           \* the row the loop is at (1-based)
    now,           \* the clock read by datetime.utcnow()
    calls,         \* the requests sent to the scoring service, in order
    results,       \* the list of result records
    xlsx_buf,      \* results.xlsx
    csv_buf,       \* snov_import.csv
    downloads,     \* the download buttons shown
    d_perf,        \* decision_and_email on its own: the score,
    d_name,        \* the name
    d_ret          \* and what it returned

vars == << pc, env_key, API_KEY, df_raw, mapping_auto, df, idx, now, calls,
           results, xlsx_buf, csv_buf, downloads, d_perf, d_name, d_ret >>

app_vars == << env_key, API_KEY, df, idx, now, calls, results, xlsx_buf,
               csv_buf, downloads >>

decide_vars == << d_perf, d_name, d_ret >>

\* sequences over S of length at most n
SeqUpTo(S, n) == UNION {[1..k -> S] : k \in 0..n}

NoTable == [columns |-> << >>, rows |-> << >>]

NoMapping == [k \in CanonKeys |-> NoCol]

NoBuffer == [written |-> FALSE, header |-> << >>, rows |-> << >>]

\* the keys of a result record, in the order of the dict
RESULT_COLUMNS ==
    << "website", "email", "name", "company", "linkedin", "mobile_performance"
     , "accessibility", "best_practices", "seo", "decision", "email_subject"
     , "email_body", "audit_note", "timestamp_utc", "error" >>

NoReturn ==
    [ decision |-> "", email_subject |-> "", email_body |-> EmptyBody
    , audit_note |-> "" ]

AppIdle ==
    /\ env_key = << >>
    /\ API_KEY = << >>
    /\ df = << >>
    /\ idx = 0
    /\ now = 0
    /\ calls = << >>
    /\ results = << >>
    /\ xlsx_buf = NoBuffer
    /\ csv_buf = NoBuffer
    /\ downloads = {}

DecideIdle ==
    /\ d_perf = None
    /\ d_name = None
    /\ d_ret = NoReturn

(***************************************************************************)
(* Inputs of the batch specification.                                      *)
(***************************************************************************)
EnvKeys == { << >>, <<" ">>, <<" ","k","e","y","-","1">> }

AppHeaders ==
    { << <<"W","e","b","s","i","t","e">>, <<"N","a","m","e">> >>
    , << <<"L","i","n","k">>, <<"E","m","a","i","l">> >> }

AppRowPool ==
    { << <<" ","h","t","t","p",":","/","/","a",".","i","o">>, <<"B","o","b"," ">> >>
    , << <<"w","w","w",".","b",".","c","o">>, <<" ">> >> }

AppFiles ==
    {[columns |-> h, rows |-> r] : h \in AppHeaders, r \in SeqUpTo(AppRowPool, MaxRows)}

MaxRowsChoices == {MAX_ROWS_MIN, MAX_ROWS_DEFAULT}

\* what the user leaves in the five select boxes: the detected mapping, or
\* the detected mapping with one box changed
UiChoices(auto, table) ==
    {auto} \cup {[auto EXCEPT ![k] = c] : k \in CanonKeys, c \in {NoCol} \cup Cols(table)}

RawScores == {420, 905, 910}

OkReplies ==
    {[raises |-> FALSE,
      cats |-> [performance |-> p, accessibility |-> o,
                best_practices |-> o, seo |-> o]] :
        p \in {None} \cup {Some(v) : v \in RawScores},
        o \in {None, Some(1000)}}

ErrMessages ==
    { << >>
    , <<"r","e","a","d"," ","t","i","m","e","d"," ","o","u","t">>
    , [i \in 1..(ERR_MAX + 1) |-> "x"] }

NoScores ==
    [ mobile_performance |-> None, accessibility |-> None
    , best_practices |-> None, seo |-> None ]

SNOV_COLUMNS ==
    << "email", "first_name", "company", "website", "linkedin"
     , "mobile_performance", "email_subject", "email_body", "audit_note" >>

\* the row of snov_import.csv made from a result record
snov_row(r) ==
    [ email |-> r.email, first_name |-> r.name, company |-> r.company
    , website |-> r.website, linkedin |-> r.linkedin
    , mobile_performance |-> r.mobile_performance
    , email_subject |-> r.email_subject, email_body |-> r.email_body
    , audit_note |-> r.audit_note ]

IsSend(r) == r.decision = "send"

\* res[res["decision"] == "send"] projected to the columns of the import
snov_rows(res) ==
    LET sent == SelectSeq(res, IsSend)
    IN  [i \in 1..Len(sent) |-> snov_row(sent[i])]

\* the canonical table: the selected column of every row, stripped, or ""
build_df(table, finalized) ==
    [i \in 1..Len(table.rows) |->
        [k \in CanonKeys |->
            IF finalized[k] = NoCol THEN << >>
            ELSE Strip(table.rows[i][finalized[k]])]]

\* str(row.get("name", "")).strip() or None
name_val(row) ==
    IF Strip(row["name"]) = << >> THEN None ELSE Some(Strip(row["name"]))

\* the dict appended to results
result_record(row, ts, scores, d, err) ==
    [ website            |-> Strip(row["website"])
    , email              |-> row["email"]
    , name               |-> row["name"]
    , company            |-> row["company"]
    , linkedin           |-> row["linkedin"]
    , mobile_performance |-> scores.mobile_performance
    , accessibility      |-> scores.accessibility
    , best_practices     |-> scores.best_practices
    , seo                |-> scores.seo
    , decision           |-> d.decision
    , email_subject      |-> d.email_subject
    , email_body         |-> d.email_body
    , audit_note         |-> d.audit_note
    , timestamp_utc      |-> ts
    , error              |-> err ]

ERROR_DECISION ==
    [ decision |-> "skip", email_subject |-> "", email_body |-> EmptyBody
    , audit_note |-> "Error during analysis" ]

(***************************************************************************)
(* The script, step by step.                                               *)
(***************************************************************************)
Init ==
    /\ pc = "start"
    /\ env_key \in EnvKeys
    /\ API_KEY = << >>
    /\ df_raw = NoTable
    /\ mapping_auto = NoMapping
    /\ df = << >>
    /\ idx = 0
    /\ now = 0
    /\ calls = << >>
    /\ results = << >>
    /\ xlsx_buf = NoBuffer
    /\ csv_buf = NoBuffer
    /\ downloads = {}
    /\ DecideIdle

\* faulty variant: the key is tested before it is stripped
CheckApiKeyUnstripped ==
    /\ pc = "start"
    /\ API_KEY' = Strip(env_key)
    /\ pc' = IF env_key = << >> THEN "stopped" ELSE "upload"
    /\ UNCHANGED << env_key, df_raw, mapping_auto, df, idx, now, calls, results,
                    xlsx_buf, csv_buf, downloads, decide_vars >>

\* API_KEY = os.getenv(...).strip(); if not API_KEY: st.stop()
CheckApiKey ==
    /\ pc = "start"
    /\ API_KEY' = Strip(env_key)
    /\ pc' = IF API_KEY' = << >> THEN "stopped" ELSE "upload"
    /\ UNCHANGED << env_key, df_raw, mapping_auto, df, idx, now, calls, results,
                    xlsx_buf, csv_buf, downloads, decide_vars >>

\* a file is uploaded: read_any, head(max_rows), auto_map_columns
Upload ==
    /\ pc = "upload"
    /\ \E file \in AppFiles, max_rows \in MaxRowsChoices :
          /\ df_raw' = head(file, max_rows)
          /\ mapping_auto' = auto_map_columns(df_raw')
    /\ pc' = "mapping"
    /\ UNCHANGED << app_vars, decide_vars >>

\* the select boxes are read: without a website column the script stops,
\* otherwise the canonical table is built
SelectMapping ==
    /\ pc \in {"mapping", "no_website", "ready"}
    /\ \E mapping_ui \in UiChoices(mapping_auto, df_raw) :
          IF mapping_ui["website"] = NoCol
          THEN /\ pc' = "no_website"
               /\ df' = << >>
          ELSE /\ pc' = "ready"
               /\ df' = build_df(df_raw, mapping_ui)
    /\ UNCHANGED << env_key, API_KEY, df_raw, mapping_auto, idx, now, calls,
                    results, xlsx_buf, csv_buf, downloads, decide_vars >>

\* the button "Run analysis": results = []
RunAnalysis ==
    /\ pc = "ready"
    /\ results' = << >>
    /\ idx' = 1
    /\ pc' = "loop"
    /\ UNCHANGED << env_key, API_KEY, df_raw, mapping_auto, df, now, calls,
                    xlsx_buf, csv_buf, downloads, decide_vars >>

\* the head of a loop iteration, up to the request get_pagespeed sends
CallScoring ==
    /\ pc = "loop"
    /\ idx <= Len(df)
    /\ now' = now + 1
    /\ calls' = Append(calls, [row |-> idx, url |-> Strip(df[idx]["website"]),
                               key |-> API_KEY])
    /\ pc' = "scoring"
    /\ UNCHANGED << env_key, API_KEY, df_raw, mapping_auto, df, idx, results,
                    xlsx_buf, csv_buf, downloads, decide_vars >>

\* faulty variant: a reply without a performance score appends nothing
ScoringReturnsDropsMissing ==
    /\ pc = "scoring"
    /\ \E reply \in OkReplies :
          LET scores == get_pagespeed(reply)
              d      == decision_and_email(scores.mobile_performance, name_val(df[idx]))
          IN  results' = IF scores.mobile_performance = None THEN results
                         ELSE Append(results, result_record(df[idx], now, scores, d, << >>))
    /\ idx' = idx + 1
    /\ pc' = "loop"
    /\ UNCHANGED << env_key, API_KEY, df_raw, mapping_auto, df, now, calls,
                    xlsx_buf, csv_buf, downloads, decide_vars >>

\* the request returns: the try branch, then results.append
ScoringReturns ==
    /\ pc = "scoring"
    /\ \E reply \in OkReplies :
          LET scores == get_pagespeed(reply)
              d      == decision_and_email(scores.mobile_performance, name_val(df[idx]))
          IN  results' = Append(results, result_record(df[idx], now, scores, d, << >>))
    /\ idx' = idx + 1
    /\ pc' = "loop"
    /\ UNCHANGED << env_key, API_KEY, df_raw, mapping_auto, df, now, calls,
                    xlsx_buf, csv_buf, downloads, decide_vars >>

\* faulty variant: the row is left in place after an error, so it is tried again
ScoringRaisesRetries ==
    /\ pc = "scoring"
    /\ \E message \in ErrMessages :
          results' = Append(results,
              result_record(df[idx], now, NoScores, ERROR_DECISION, Prefix(message, ERR_MAX)))
    /\ idx' = IF Len(calls) < Len(df) THEN idx ELSE idx + 1
    /\ pc' = "loop"
    /\ UNCHANGED << env_key, API_KEY, df_raw, mapping_auto, df, now, calls,
                    xlsx_buf, csv_buf, downloads, decide_vars >>

\* the request raises: the except branch, then results.append
ScoringRaises ==
    /\ pc = "scoring"
    /\ \E message \in ErrMessages :
          results' = Append(results,
              result_record(df[idx], now, NoScores, ERROR_DECISION, Prefix(message, ERR_MAX)))
    /\ idx' = idx + 1
    /\ pc' = "loop"
    /\ UNCHANGED << env_key, API_KEY, df_raw, mapping_auto, df, now, calls,
                    xlsx_buf, csv_buf, downloads, decide_vars >>

\* after the loop: the two exports and the download buttons.  With no row
\* pd.DataFrame([]) has no column and res["decision"] raises KeyError, after
\* results.xlsx was written to its buffer and before any button is shown.
Export ==
    /\ pc = "loop"
    /\ idx > Len(df)
    /\ xlsx_buf' = [written |-> TRUE, header |-> IF results = << >> THEN << >> ELSE RESULT_COLUMNS,
                    rows |-> results]
    /\ IF results = << >>
       THEN /\ pc' = "crashed"
            /\ UNCHANGED << csv_buf, downloads >>
       ELSE /\ csv_buf' = [written |-> TRUE, header |-> SNOV_COLUMNS,
                           rows |-> snov_rows(results)]
            /\ downloads' = {"results.xlsx", "snov_import.csv"}
            /\ pc' = "done"
    /\ UNCHANGED << env_key, API_KEY, df_raw, mapping_auto, df, idx, now, calls,
                    results, decide_vars >>

Next ==
    \/ CheckApiKey
    \/ Upload
    \/ SelectMapping
    \/ RunAnalysis
    \/ CallScoring
    \/ ScoringReturns
    \/ ScoringRaises
    \/ Export

Spec == Init /\ [][Next]_vars

(***************************************************************************)
(* auto_map_columns on its own, over tables of up to SAMPLE + MaxFree rows: *)
(* some rows without any match, then up to MaxFree rows of chosen cells.   *)
(***************************************************************************)
MapHeaders ==
    { << <<"C","o","m","p","a","n","y"," "," ","U","R","L"," ">>, <<"E","m","a","i","l">> >>
    , << <<"E","-","M","a","i","l">>, <<"N","o","t","e","s">> >>
    , << <<"N","o","t","e","s">>, <<"W","o","r","k","\t","E","m","a","i","l">> >>
    , << <<"N","o","t","e","s">>, <<"S","i","t","e","2">> >>
    , << <<"N","o","t","e","s">>, <<"P","r","o","f","i","l","e">> >>
    , << <<"N","o","t","e","s">> >> }

FILLER == <<"n","/","a">>

URL_CELL == <<" ","H","T","T","P","S",":","/","/","a",".","i","o">>

MAIL_CELL == <<"j","o","@","w","w","w",".","l","i","n","k","e","d","i","n",".","c","o","m">>

\* the cells a chosen row may hold in its first and in its second column
ColPool == << {URL_CELL, FILLER}, {MAIL_CELL, FILLER} >>

RowPool(h) == {r \in [1..Len(h) -> {URL_CELL, MAIL_CELL, FILLER}] :
                 \A c \in 1..Len(h) : r[c] \in ColPool[c]}

PadChoices == {0, SAMPLE - WEBSITE_MIN, SAMPLE}

\* pad rows without any match, then the chosen rows
MapTable(h, pad, free) ==
    [columns |-> h, rows |-> [i \in 1..pad |-> [c \in 1..Len(h) |-> FILLER]] \o free]

InitMap ==
    /\ pc = "map"
    /\ \E h \in MapHeaders, pad \in PadChoices :
          \E free \in SeqUpTo(RowPool(h), MaxFree) :
             df_raw = MapTable(h, pad, free)
    /\ mapping_auto = NoMapping
    /\ AppIdle
    /\ DecideIdle

MapColumns ==
    /\ pc = "map"
    /\ mapping_auto' = auto_map_columns(df_raw)
    /\ pc' = "mapped"
    /\ UNCHANGED << df_raw, app_vars, decide_vars >>

NextMap == MapColumns

SpecMap == InitMap /\ [][NextMap]_vars

(***************************************************************************)
(* decision_and_email on its own, over every score up to MaxPerf.          *)
(***************************************************************************)
PerfInputs == {None} \cup {Some(p) : p \in 0..MaxPerf}

NameInputs ==
    { None, Some(<< >>), Some(<<" ">>), Some(<<"A","n","n">>)
    , Some(<<" ","B","o","b"," ">>) }

InitDecide ==
    /\ pc = "decide"
    /\ d_perf \in PerfInputs
    /\ d_name \in NameInputs
    /\ d_ret = NoReturn
    /\ df_raw = NoTable
    /\ mapping_auto = NoMapping
    /\ AppIdle

Decide ==
    /\ pc = "decide"
    /\ d_ret' = decision_and_email(d_perf, d_name)
    /\ pc' = "decided"
    /\ UNCHANGED << d_perf, d_name, df_raw, mapping_auto, app_vars >>

NextDecide == Decide

SpecDecide == InitDecide /\ [][NextDecide]_vars

(***************************************************************************)
(* Properties.                                                             *)
(***************************************************************************)
\* the loop has ended: the export ran, or is about to
LoopOver == pc \in {"done", "crashed"} \/ (pc = "loop" /\ idx > Len(df))

\* the export ran
Exported == pc \in {"done", "crashed"}

BothDownloads == {"results.xlsx", "snov_import.csv"}

\* C1: a batch over N rows ends with exactly N result records, and the i-th
\* record carries the website, email, name, company and linkedin of the i-th
\* row, whatever the scoring outcomes were.
C1_OneRecordPerRow ==
    /\ Len(results) <= Len(df)
    /\ \A i \in 1..Len(results) : \A k \in CanonKeys : results[i][k] = df[i][k]
    /\ LoopOver => Len(results) = Len(df)

C1_Witness ==
    /\ pc = "done"
    /\ Len(results) = 2
    /\ results[1].error # << >>
    /\ results[2].error = << >>
    /\ results[2].mobile_performance = None
    /\ results[1].website # results[2].website

\* C2: a row whose scoring call raises yields a record with a non-empty
\* error, no score, the decision skip with the note "Error during analysis"
\* and an empty subject and body, and the loop goes on to the next row.
C2_ErrorRow ==
    [][ScoringRaises =>
          LET r == results'[Len(results')]
          IN  /\ Len(results') = Len(results) + 1
              /\ r.error # << >>
              /\ r.mobile_performance = None
              /\ r.accessibility = None
              /\ r.best_practices = None
              /\ r.seo = None
              /\ r.decision = "skip"
              /\ r.audit_note = "Error during analysis"
              /\ r.email_subject = ""
              /\ r.email_body = EmptyBody
              /\ pc' = "loop"
              /\ idx' = idx + 1]_vars

\* C2, apart from the error text: the record of a row whose call raises has
\* no score, is a skip with the error note, holds the first ERR_MAX
\* characters of the message, and the loop goes on to the next row.
C2_ErrorRowShape ==
    [][ScoringRaises =>
          LET r == results'[Len(results')]
          IN  /\ Len(results') = Len(results) + 1
              /\ Len(r.error) <= ERR_MAX
              /\ \E message \in ErrMessages :
                    /\ Len(r.error) = Min(Len(message), ERR_MAX)
                    /\ \A i \in 1..Len(r.error) : r.error[i] = message[i]
              /\ r.mobile_performance = None
              /\ r.accessibility = None
              /\ r.best_practices = None
              /\ r.seo = None
              /\ r.decision = "skip"
              /\ r.audit_note = "Error during analysis"
              /\ r.email_subject = ""
              /\ r.email_body = EmptyBody
              /\ pc' = "loop"
              /\ idx' = idx + 1]_vars

\* C3: a batch that has started always completes: every row is processed and
\* both the full report and the outreach-import file are produced.  Stated on
\* the state the script ends in.
C3_BatchCompletes ==
    Exported =>
        /\ Len(results) = Len(df)
        /\ xlsx_buf.written
        /\ csv_buf.written
        /\ downloads = BothDownloads

\* C3, for a table with at least one row.
C3_NonEmptyBatchCompletes ==
    (Exported /\ Len(df) >= 1) =>
        /\ pc = "done"
        /\ Len(results) = Len(df)
        /\ xlsx_buf.written
        /\ xlsx_buf.rows = results
        /\ csv_buf.written
        /\ downloads = BothDownloads

\* the positions of the records to send
SendRows == {i \in 1..Len(results) : results[i].decision = "send"}

\* the position of the j-th record to send
NthSend(j) == CHOOSE i \in SendRows : Cardinality({m \in SendRows : m <= i}) = j

\* the rows of the import file are the records to send, in their order
OnlySendRows ==
    /\ Len(csv_buf.rows) = Cardinality(SendRows)
    /\ \A j \in 1..Len(csv_buf.rows) :
          LET r == results[NthSend(j)]
              o == csv_buf.rows[j]
          IN  /\ o.email = r.email
              /\ o.first_name = r.name
              /\ o.company = r.company
              /\ o.website = r.website
              /\ o.linkedin = r.linkedin
              /\ o.mobile_performance = r.mobile_performance
              /\ o.email_subject = r.email_subject
              /\ o.email_body = r.email_body
              /\ o.audit_note = r.audit_note

\* C4: the outreach-import file holds exactly the records whose decision is
\* send, in row order, and none whose decision is skip; with no record to
\* send it is still written, with its header row and no data row.
C4_OutreachFile ==
    Exported =>
        /\ csv_buf.written
        /\ csv_buf.header = SNOV_COLUMNS
        /\ OnlySendRows
        /\ (SendRows = {} => csv_buf.rows = << >>)

\* C4, for a table with at least one row.
C4_OutreachFileNonEmptyBatch ==
    (Exported /\ Len(df) >= 1) =>
        /\ csv_buf.written
        /\ csv_buf.header = SNOV_COLUMNS
        /\ OnlySendRows
        /\ (SendRows = {} => csv_buf.rows = << >>)

BucketLabels == {"0-50", "51-75", "76-90"}

Skipped(ret, note) ==
    /\ ret.decision = "skip"
    /\ ret.email_subject = ""
    /\ ret.email_body = EmptyBody
    /\ ret.audit_note = note

Sent(ret, subject, text) ==
    /\ ret.decision = "send"
    /\ ret.email_subject = subject
    /\ ret.email_body.text = text

\* C5: every score 0..100 falls in exactly one outcome: 0..50, 51..75 and
\* 76..90 send with the template of that range, 91..100 skips with the note
\* "Performance is 90+ (no outreach)" and no subject or body; an absent score
\* skips with the note "Score not available".
C5_Buckets ==
    pc = "decided" =>
        /\ Cardinality({SUBJECT_LOW, SUBJECT_MID, SUBJECT_HIGH}) = 3
        /\ Cardinality({TEXT_LOW, TEXT_MID, TEXT_HIGH}) = 3
        /\ d_perf = None => Skipped(d_ret, "Score not available")
        /\ d_perf # None =>
              LET p == d_perf[1]
              IN  /\ p \in 0..50 => Sent(d_ret, SUBJECT_LOW, TEXT_LOW)
                  /\ p \in 51..75 => Sent(d_ret, SUBJECT_MID, TEXT_MID)
                  /\ p \in 76..90 => Sent(d_ret, SUBJECT_HIGH, TEXT_HIGH)
                  /\ p \in 91..100 => Skipped(d_ret, "Performance is 90+ (no outreach)")

C5_Witness ==
    /\ pc = "decided"
    /\ d_perf = Some(50)
    /\ d_ret.decision = "send"
    /\ d_ret.email_subject = SUBJECT_LOW

\* C6 as claimed: for every score p in 0..90 the note of the send decision is
\* "Mobile performance {p}. Offer depends on bucket {label}", label one of
\* "0-50", "51-75", "76-90".
C6_NoteAsClaimed ==
    (pc = "decided" /\ d_perf # None /\ d_perf[1] \in 0..90) =>
        /\ d_ret.decision = "send"
        /\ \E label \in BucketLabels :
              d_ret.audit_note =
                  "Mobile performance " \o ToString(d_perf[1])
                      \o ". Offer depends on bucket " \o label

\* C6, amended: the note is "Mobile performance {p}. Offer depends on bucket
\* {label}." and ends with a period.
C6_NoteWithPeriod ==
    (pc = "decided" /\ d_perf # None /\ d_perf[1] \in 0..90) =>
        /\ d_ret.decision = "send"
        /\ \E label \in BucketLabels :
              d_ret.audit_note =
                  "Mobile performance " \o ToString(d_perf[1])
                      \o ". Offer depends on bucket " \o label \o "."

C6_Witness ==
    /\ pc = "decided"
    /\ d_perf = Some(42)
    /\ d_name = None
    /\ d_ret.decision = "send"
    /\ d_ret.audit_note = "Mobile performance 42. Offer depends on bucket 0-50."

\* C7: with no API key in the environment (nothing but whitespace) the
\* script halts before any row is touched: no table is read, no request is
\* sent and no result record is made.
C7_NoKeyNoProcessing ==
    (\A i \in 1..Len(env_key) : env_key[i] \in Whitespace) =>
        /\ pc \in {"start", "stopped"}
        /\ df_raw = NoTable
        /\ df = << >>
        /\ calls = << >>
        /\ results = << >>

C7_Witness ==
    /\ pc = "stopped"
    /\ env_key = <<" ">>

\* C8: one request per lead, in row order and one at a time: the request for
\* a row is sent only after the record of the row before it was appended,
\* and a row whose request failed is not requested again.
C8_OneAttemptInOrder ==
    /\ Len(calls) <= Len(df)
    /\ \A j \in 1..Len(calls) :
          /\ calls[j].row = j
          /\ calls[j].url = df[j]["website"]
    /\ Len(calls) = IF pc = "scoring" THEN Len(results) + 1 ELSE Len(results)
    /\ LoopOver => Len(calls) = Len(df)

C8_Witness ==
    /\ pc = "done"
    /\ Len(calls) = 2
    /\ results[1].audit_note = "Error during analysis"
    /\ results[2].decision = "send"

\* the URL-like values of column c among the first SAMPLE rows
UrlCount(c) ==
    Cardinality({i \in 1..Len(df_raw.rows) :
                    i <= SAMPLE /\ looks_like_url(df_raw.rows[i][c])})

NoWebsiteHeader ==
    \A c \in Cols(df_raw) : norm(df_raw.columns[c]) \notin SYN_website

\* C9: when no header is a website synonym, website is mapped if and only if
\* some column has at least 3 URL-like values among the first 30 rows; the
\* column chosen has the largest count and is the earliest such column; a
\* column with only 2 URL-like values is never chosen.
C9_WebsiteSniffing ==
    (pc = "mapped" /\ NoWebsiteHeader) =>
        LET w == mapping_auto["website"]
        IN  /\ w # NoCol <=> \E c \in Cols(df_raw) : UrlCount(c) >= 3
            /\ w # NoCol =>
                  /\ w \in Cols(df_raw)
                  /\ \A d \in Cols(df_raw) : UrlCount(d) <= UrlCount(w)
                  /\ \A d \in Cols(df_raw) : UrlCount(d) = UrlCount(w) => w <= d
            /\ \A c \in Cols(df_raw) : UrlCount(c) = 2 => w # c

C9_Witness ==
    /\ pc = "mapped"
    /\ NoWebsiteHeader
    /\ Len(df_raw.columns) = 2
    /\ Len(df_raw.rows) > SAMPLE
    /\ UrlCount(1) = UrlCount(2)
    /\ UrlCount(1) = 3
    /\ mapping_auto["website"] = 1

\* C10: content sniffing scores only unmapped columns: the column it picks
\* for website or email is mapped to no other canonical field.
C10_SniffSkipsMappedColumns ==
    pc = "mapped" =>
        \A f \in {"website", "email"} :
            (HeaderMatch(df_raw, f) = NoCol /\ mapping_auto[f] # NoCol) =>
                \A g \in CanonKeys \ {f} : mapping_auto[g] # mapping_auto[f]

====
